---- MODULE Spec2Model ----
(***************************************************************************)
(* Model of the site scripts of BlaineWeiss.github.io:                     *)
(*   - tools.js  : the TIFF/OME-TIFF header parser (parseTiffMetadata),    *)
(*                 the report formatter and the file-input/extract-button  *)
(*                 wiring (handleFile and the two listeners);              *)
(*   - js/main.js: the dark/light theme toggle kept in localStorage and    *)
(*                 synchronised between tabs by the storage event.         *)
(* Three specifications share the module:                                  *)
(*   Spec      one run of reader.onload: parse a buffer step by step,      *)
(*             then format the report;                                     *)
(*   SpecUI    change / click / read-completion events of the tools page;  *)
(*   SpecTheme toggle clicks and storage events in several tabs.           *)
(***************************************************************************)
EXTENDS Integers, Sequences, FiniteSets, TLC

VARIABLES
  \* ---- one run of reader.onload (tools.js lines 138-175)
  buf,            \* the ArrayBuffer: a sequence of bytes, offset o is buf[o+1]
  pc,             \* position in the handler: start, loop, parsed, shown
  littleEndian,   \* const littleEndian
  firstIFDOffset, \* const firstIFDOffset
  numEntries,     \* const numEntries
  i,              \* loop counter of the entry loop
  width, height, xRes, yRes, description,   \* the parser's locals
  threw,          \* parseTiffMetadata left by an exception (caught in handleFile)
  lastEntry,      \* what the latest loop iteration did: none, skipped, decoded
  meta,           \* the metadata object the formatter receives
  out,            \* the report: a sequence of lines
  \* ---- the tools page (tools.js lines 136-190)
  selected,       \* fileInput.files[0], or NoFile
  disabled,       \* extractBtn.disabled
  output,         \* output.textContent
  readers,        \* the FileReaders created so far: run -> [file, state]
  lastDone,       \* the run whose onload/onerror ran most recently (0: none)
  cleared,        \* the change handler ran after that completion
  \* ---- the theme script in each tab (js/main.js)
  storageOK,      \* localStorage is usable (it throws in privacy mode)
  storage,        \* localStorage.getItem('theme')
  dark,           \* per tab: documentElement.classList.contains('dark')
  icon,           \* per tab: btn.textContent
  events,         \* per tab: storage events queued for delivery
  clicks          \* toggle clicks so far

parseVars == <<buf, pc, littleEndian, firstIFDOffset, numEntries, i, width, height,
               xRes, yRes, description, threw, lastEntry, meta, out>>
uiVars    == <<selected, disabled, output, readers, lastDone, cleared>>
themeVars == <<storageOK, storage, dark, icon, events, clicks>>
vars      == <<parseVars, uiVars, themeVars>>

(***************************************************************************)
(* Values.  A JavaScript value that may be undefined or a number is a      *)
(* record [k, n, d]: k is "undef", "num" (the finite number n/d in lowest  *)
(* terms, d > 0), "NaN" or "Infinity".  A string is a sequence of          *)
(* one-character strings; an optional string is a record [k, s].           *)
(***************************************************************************)
RECURSIVE Gcd(_, _)
Gcd(a, b) == IF b = 0 THEN a ELSE Gcd(b, a % b)

Undef == [k |-> "undef", n |-> 0, d |-> 1]
NaN   == [k |-> "NaN", n |-> 0, d |-> 1]
Inf   == [k |-> "Infinity", n |-> 0, d |-> 1]
Num(n) == [k |-> "num", n |-> n, d |-> 1]

\* the JavaScript quotient n / d of two unsigned integers
JsDiv(n, d) ==
  IF d = 0 THEN (IF n = 0 THEN NaN ELSE Inf)
  ELSE LET g == Gcd(n, d) IN [k |-> "num", n |-> n \div g, d |-> d \div g]

\* ToBoolean of a number-or-undefined: undefined, 0 and NaN are falsy
Truthy(v) == (v.k = "num" /\ v.n # 0) \/ v.k = "Infinity"
Present(v) == v.k # "undef"

NoStr == [k |-> "undef", s |-> <<>>]
Str(s) == [k |-> "str", s |-> s]
\* ToBoolean of a string-or-undefined: undefined and '' are falsy
StrTruthy(v) == v.k = "str" /\ v.s # <<>>

(***************************************************************************)
(* DataView reads.  The bounds are the caller's business, as in the code:  *)
(* a read outside the buffer makes DataView throw a RangeError, which the  *)
(* actions model by testing InBounds before they read.                     *)
(***************************************************************************)
InBounds(b, off, n) == off >= 0 /\ off + n <= Len(b)

GetUint8(b, off) == b[off + 1]

GetUint16(b, off, le) ==
  IF le THEN b[off + 1] + 256 * b[off + 2]
        ELSE 256 * b[off + 1] + b[off + 2]

GetUint32(b, off, le) ==
  IF le THEN b[off + 1] + 256 * b[off + 2] + 65536 * b[off + 3] + 16777216 * b[off + 4]
        ELSE 16777216 * b[off + 1] + 65536 * b[off + 2] + 256 * b[off + 3] + b[off + 4]

\* high * 2^32 + low.  Every offset of 2^31 or more compares alike with a
\* buffer length, and TLC's integers end at 2^31 - 1: a combination with a
\* non-zero upper word saturates at tooFar.
GetUint64(b, off, little) ==
  LET low    == GetUint32(b, off, little)
      high   == GetUint32(b, off + 4, little)
      tooFar == 2147483647 - 16
  IN IF little
       THEN (IF high = 0 THEN low ELSE tooFar)
       ELSE (IF low = 0 THEN high ELSE tooFar)

\* typeSizeMap[type] || 0
TypeSize(type) ==
  CASE type = 1 -> 1
    [] type = 2 -> 1
    [] type = 3 -> 2
    [] type = 4 -> 4
    [] type = 5 -> 8
    [] type = 7 -> 1
    [] type = 16 -> 8
    [] OTHER -> 0

TagImageWidth == 256
TagImageLength == 257
TagXResolution == 282
TagYResolution == 283
TagImageDescription == 270

(***************************************************************************)
(* The files offered to the parser.  A buffer is laid out as a TIFF is:    *)
(* byte-order mark, magic, offset of the IFD, the IFD (entry count and     *)
(* 12-byte entries) and a data area holding two rationals and a text.      *)
(* What varies: the byte-order mark, the magic, the IFD offset written in  *)
(* the header, the entries, the declared entry count, the data area and    *)
(* the length the file is cut to.                                          *)
(***************************************************************************)
MaxEntries == 2      \* entries written to an IFD

Enc16(v, le) == IF le THEN <<v % 256, v \div 256>> ELSE <<v \div 256, v % 256>>
Enc32(v, le) ==
  LET b0 == v % 256
      b1 == (v \div 256) % 256
      b2 == (v \div 65536) % 256
      b3 == v \div 16777216
  IN IF le THEN <<b0, b1, b2, b3>> ELSE <<b3, b2, b1, b0>>

MarkII == <<73, 73>>
MarkMM == <<77, 77>>
MarkXX == <<88, 88>>
Marks == {MarkII, MarkMM, MarkXX}

\* an entry to write: vk says how its 4 value bytes are filled: a 16-bit
\* value (left-justified), a 32-bit value or absolute pointer, or a pointer
\* into the data area
Entry(tag, type, count, vk, v) ==
  [tag |-> tag, type |-> type, count |-> count, vk |-> vk, v |-> v]

EntryKinds ==
  { Entry(TagImageWidth, 3, 1, "short", 100),
    Entry(TagImageWidth, 4, 1, "long", 70000),
    Entry(TagImageWidth, 3, 1, "short", 0),
    Entry(TagImageWidth, 3, 3, "data", 0),
    Entry(TagImageLength, 3, 1, "short", 300),
    Entry(TagXResolution, 5, 1, "data", 0),
    Entry(TagXResolution, 5, 1, "data", 8),
    Entry(TagYResolution, 5, 1, "data", 8),
    Entry(TagXResolution, 3, 1, "short", 72),
    Entry(TagXResolution, 5, 1, "long", 200),
    Entry(TagImageDescription, 2, 5, "data", 16) }

RECURSIVE SeqsUpTo(_, _)
SeqsUpTo(S, n) ==
  IF n = 0 THEN {<<>>}
  ELSE LET shorter == SeqsUpTo(S, n - 1)
       IN shorter \cup {Append(q, e) : q \in shorter, e \in S}

\* the data area: rational 72/1, a second rational, five bytes of text
\* ("<P>", " <P>", "fr" and the empty string, null-terminated)
DataAreas ==
  { [on |-> FALSE, num |-> 0, den |-> 0, text |-> <<0, 0, 0, 0, 0>>],
    [on |-> TRUE, num |-> 1, den |-> 0, text |-> <<60, 80, 62, 0, 0>>],
    [on |-> TRUE, num |-> 0, den |-> 0, text |-> <<32, 60, 80, 62, 0>>],
    [on |-> TRUE, num |-> 3, den |-> 2, text |-> <<102, 114, 0, 60, 0>>],
    [on |-> TRUE, num |-> 0, den |-> 5, text |-> <<0, 60, 80, 62, 0>>] }

EncEntry(e, le, dataOff) ==
  Enc16(e.tag, le) \o Enc16(e.type, le) \o Enc32(e.count, le) \o
  (CASE e.vk = "short" -> Enc16(e.v, le) \o <<0, 0>>
     [] e.vk = "long"  -> Enc32(e.v, le)
     [] e.vk = "data"  -> Enc32(dataOff + e.v, le))

RECURSIVE EncEntries(_, _, _)
EncEntries(es, le, dataOff) ==
  IF es = <<>> THEN <<>>
  ELSE EncEntry(Head(es), le, dataOff) \o EncEntries(Tail(es), le, dataOff)

EncData(a, le) ==
  IF a.on THEN Enc32(72, le) \o Enc32(1, le) \o Enc32(a.num, le) \o Enc32(a.den, le) \o a.text
  ELSE <<>>

\* a whole file: wide says the header carries an 8-byte offset (IFD at 12)
BuildTiff(mark, magic, wide, off, es, declared, a) ==
  LET le      == mark = MarkII
      ifdAt   == IF wide THEN 12 ELSE 8
      dataOff == ifdAt + 2 + 12 * Len(es)
      offLE   == Enc32(off, TRUE) \o <<0, 0, 0, 0>>
      offBE   == <<0, 0, 0, 0>> \o Enc32(off, FALSE)
  IN mark \o Enc16(magic, le)
       \o (IF wide THEN (IF le THEN offLE ELSE offBE) ELSE Enc32(off, le))
       \o Enc16(declared, le) \o EncEntries(es, le, dataOff) \o EncData(a, le)

Take(s, n) == IF n >= Len(s) THEN s ELSE SubSeq(s, 1, n)

\* files with a well-formed header, for the entry loop
EntryFiles ==
  { BuildTiff(mark, 42, FALSE, 8, es, Len(es) + extra, a) :
      mark \in Marks, es \in SeqsUpTo(EntryKinds, MaxEntries),
      extra \in {0, 1}, a \in DataAreas }

\* files for the header checks: every mark and magic, the IFD offset right
\* or past the end, a 4-byte or (not for magic 42) an 8-byte offset field,
\* cut to lengths around the limits of the header
HeaderFiles ==
  { Take(BuildTiff(mark, h.magic, h.wide, off,
                   <<Entry(TagImageWidth, 3, 1, "short", 100)>>, 1,
                   [on |-> FALSE, num |-> 0, den |-> 0, text |-> <<>>]), len) :
      mark \in Marks,
      h \in {[magic |-> 42, wide |-> FALSE], [magic |-> 43, wide |-> FALSE],
             [magic |-> 43, wide |-> TRUE], [magic |-> 7, wide |-> FALSE]},
      off \in {8, 12, 200}, len \in {0, 4, 7, 8, 10, 11, 12, 13, 22, 26} }

Files == EntryFiles \cup HeaderFiles

(***************************************************************************)
(* parseTiffMetadata, tools.js lines 16-128.                               *)
(***************************************************************************)
EmptyMeta ==
  [width |-> Undef, height |-> Undef, xResolution |-> Undef, yResolution |-> Undef,
   physicalSizeX |-> Undef, physicalSizeY |-> Undef, physicalSizeZ |-> Undef,
   physicalSizeUnit |-> NoStr, timeIncrement |-> Undef, timeIncrementUnit |-> NoStr,
   frameRate |-> Undef]

\* `return {}` of the header checks
ReturnEmpty ==
  /\ pc' = "parsed"
  /\ meta' = EmptyMeta
  /\ threw' = FALSE

\* a RangeError leaves parseTiffMetadata; handleFile's catch makes meta = {}
Throw ==
  /\ pc' = "parsed"
  /\ meta' = EmptyMeta
  /\ threw' = TRUE

\* lines 17-33: the header
ParseHeader ==
  /\ pc = "start"
  /\ UNCHANGED <<buf, i, width, height, xRes, yRes, description, lastEntry, out,
                 uiVars, themeVars>>
  /\ IF Len(buf) < 8
       THEN ReturnEmpty /\ UNCHANGED <<littleEndian, firstIFDOffset, numEntries>>
       ELSE
         LET le    == GetUint8(buf, 0) = 73 /\ GetUint8(buf, 1) = 73
             magic == GetUint16(buf, 2, le)
         IN /\ littleEndian' = le
            /\ IF magic # 42 /\ magic # 43
                 THEN ReturnEmpty /\ UNCHANGED <<firstIFDOffset, numEntries>>
                 ELSE IF magic = 43 /\ ~InBounds(buf, 8, 4)
                 THEN Throw /\ UNCHANGED <<firstIFDOffset, numEntries>>
                 ELSE
                   LET off == IF magic = 42 THEN GetUint32(buf, 4, le)
                                            ELSE GetUint64(buf, 4, le)
                   IN /\ firstIFDOffset' = off
                      /\ IF off + 2 > Len(buf)
                           THEN ReturnEmpty /\ UNCHANGED numEntries
                           ELSE /\ numEntries' = GetUint16(buf, off, le)
                                /\ pc' = "loop"
                                /\ UNCHANGED <<meta, threw>>

\* a variant that forgets the 16-bit case of the SHORT type
ReadDimAlwaysLong(b, type, valueOffset, le) == GetUint32(b, valueOffset, le)

\* line 56 / 59: type === 3 ? getUint16(valueOffset) : getUint32(valueOffset)
ReadDim(b, type, valueOffset, le) ==
  IF type = 3 THEN GetUint16(b, valueOffset, le) ELSE GetUint32(b, valueOffset, le)

\* a variant that divides without looking at the denominator
RationalUnguarded(num, denom) == JsDiv(num, denom)

\* line 64 / 69: denom ? num / denom : undefined
Rational(num, denom) == IF denom # 0 THEN JsDiv(num, denom) ELSE Undef

\* lines 73-80: the bytes from valueOffset up to a null, the length or the end
RECURSIVE ReadAscii(_, _, _, _)
ReadAscii(b, valueOffset, j, len) ==
  IF j < len /\ valueOffset + j < Len(b) /\ GetUint8(b, valueOffset + j) # 0
    THEN <<GetUint8(b, valueOffset + j)>> \o ReadAscii(b, valueOffset, j + 1, len)
    ELSE <<>>

\* lines 41-53: where entry k's value is, or that the entry is skipped
EntryOffset(k) == firstIFDOffset + 2 + k * 12

EntryPlace(b, le, entryOffset) ==
  IF entryOffset + 12 > Len(b) THEN [skip |-> TRUE, tag |-> 0, type |-> 0, size |-> 0, at |-> 0]
  ELSE
    LET tag   == GetUint16(b, entryOffset, le)
        type  == GetUint16(b, entryOffset + 2, le)
        count == GetUint32(b, entryOffset + 4, le)
        size  == TypeSize(type) * count
        ptr   == GetUint32(b, entryOffset + 8, le)
    IN IF size <= 4
         THEN [skip |-> FALSE, tag |-> tag, type |-> type, size |-> size, at |-> entryOffset + 8]
         ELSE [skip |-> ptr + size > Len(b), tag |-> tag, type |-> type, size |-> size, at |-> ptr]

\* the bytes the handler of the entry's tag reads at the value location
BytesRead(e) ==
  CASE e.tag = TagImageWidth \/ e.tag = TagImageLength -> (IF e.type = 3 THEN 2 ELSE 4)
    [] e.tag = TagXResolution \/ e.tag = TagYResolution -> 8
    [] OTHER -> 0

\* lines 40-82: one iteration of the entry loop
EntryStep ==
  /\ pc = "loop"
  /\ i < numEntries
  /\ UNCHANGED <<buf, littleEndian, firstIFDOffset, numEntries, out, uiVars, themeVars>>
  /\ LET e == EntryPlace(buf, littleEndian, EntryOffset(i))
     IN IF e.skip
          THEN /\ i' = i + 1
               /\ lastEntry' = "skipped"
               /\ UNCHANGED <<pc, width, height, xRes, yRes, description, meta, threw>>
          ELSE IF ~InBounds(buf, e.at, BytesRead(e))
          THEN /\ Throw
               /\ lastEntry' = "threw"
               /\ UNCHANGED <<i, width, height, xRes, yRes, description>>
          ELSE
            /\ i' = i + 1
            /\ lastEntry' = "decoded"
            /\ width' = IF e.tag = TagImageWidth
                          THEN Num(ReadDim(buf, e.type, e.at, littleEndian)) ELSE width
            /\ height' = IF e.tag = TagImageLength
                           THEN Num(ReadDim(buf, e.type, e.at, littleEndian)) ELSE height
            /\ xRes' = IF e.tag = TagXResolution
                         THEN Rational(GetUint32(buf, e.at, littleEndian),
                                       GetUint32(buf, e.at + 4, littleEndian))
                         ELSE xRes
            /\ yRes' = IF e.tag = TagYResolution
                         THEN Rational(GetUint32(buf, e.at, littleEndian),
                                       GetUint32(buf, e.at + 4, littleEndian))
                         ELSE yRes
            /\ description' = IF e.tag = TagImageDescription
                                THEN Str(ReadAscii(buf, e.at, 0, e.size)) ELSE description
            /\ UNCHANGED <<pc, meta, threw>>

(***************************************************************************)
(* Strings and numbers in text.                                            *)
(***************************************************************************)
DigitChars == <<"0", "1", "2", "3", "4", "5", "6", "7", "8", "9">>
IsDigit(c) == \E k \in 1..10 : DigitChars[k] = c
DigitOf(c) == (CHOOSE k \in 1..10 : DigitChars[k] = c) - 1

RECURSIVE Digits(_)
Digits(n) == IF n < 10 THEN <<DigitChars[n + 1]>>
             ELSE Digits(n \div 10) \o <<DigitChars[(n % 10) + 1]>>

\* Number -> string, as a template literal does it.  A finite n/d is
\* written with one decimal, which is exact for the values of the model
\* (d divides 10).
NumStr(v) ==
  CASE v.k = "NaN" -> <<"N", "a", "N">>
    [] v.k = "Infinity" -> <<"I", "n", "f", "i", "n", "i", "t", "y">>
    [] v.k = "num" /\ v.d = 1 -> Digits(v.n)
    [] OTHER -> Digits(v.n \div v.d) \o <<".">> \o Digits(((v.n % v.d) * 10) \div v.d)

\* the length of the run of digits of s that starts at position p
RECURSIVE DigitRun(_, _)
DigitRun(s, p) == IF p <= Len(s) /\ IsDigit(s[p]) THEN 1 + DigitRun(s, p + 1) ELSE 0

RECURSIVE DigitsValue(_)
DigitsValue(s) == IF s = <<>> THEN 0
                  ELSE 10 * DigitsValue(SubSeq(s, 1, Len(s) - 1)) + DigitOf(s[Len(s)])

RECURSIVE Pow10(_)
Pow10(k) == IF k = 0 THEN 1 ELSE 10 * Pow10(k - 1)

\* parseFloat of an unsigned decimal: the longest prefix digits[.digits],
\* NaN when there is none
ParseFloat(s) ==
  LET a    == DigitRun(s, 1)
      dot  == a + 1 <= Len(s) /\ s[a + 1] = "."
      b    == IF dot THEN DigitRun(s, a + 2) ELSE 0
      ip   == DigitsValue(SubSeq(s, 1, a))
      fp   == DigitsValue(SubSeq(s, a + 2, a + 1 + b))
  IN IF a = 0 /\ b = 0 THEN NaN
     ELSE JsDiv(ip * Pow10(b) + fp, Pow10(b))

Mu == "μ"

\* s.replace(/micro|Micro/, 'μm'): the first match only
IsMicroAt(s, p) ==
  /\ p + 4 <= Len(s)
  /\ s[p] \in {"m", "M"}
  /\ SubSeq(s, p + 1, p + 4) = <<"i", "c", "r", "o">>

ReplaceMicro(s) ==
  IF \E p \in 1..Len(s) : IsMicroAt(s, p)
    THEN LET p == CHOOSE q \in 1..Len(s) :
                    IsMicroAt(s, q) /\ \A r \in 1..(q - 1) : ~IsMicroAt(s, r)
         IN SubSeq(s, 1, p - 1) \o <<Mu, "m">> \o SubSeq(s, p + 5, Len(s))
    ELSE s

(***************************************************************************)
(* Lines 83-127: the metadata object and the description interpreter.      *)
(* What DOMParser makes of an XML description is the browser's doing: the  *)
(* Pixels element it finds is one of XmlDocs.  The four regular            *)
(* expressions of the text branch are not matched character by character:  *)
(* the captures they yield are one of TextMatches.                         *)
(***************************************************************************)
Chars_05 == <<"0", ".", "5">>
Chars_30 == <<"3", "0">>

Pixels(x, y, z, xu, yu, ti, tu, fr) ==
  [found |-> TRUE, PhysicalSizeX |-> x, PhysicalSizeY |-> y, PhysicalSizeZ |-> z,
   PhysicalSizeXUnit |-> xu, PhysicalSizeYUnit |-> yu, TimeIncrement |-> ti,
   TimeIncrementUnit |-> tu, FrameRate |-> fr]

XmlDocs ==
  { [Pixels(NoStr, NoStr, NoStr, NoStr, NoStr, NoStr, NoStr, NoStr) EXCEPT !.found = FALSE],
    Pixels(Str(Chars_05), NoStr, NoStr, Str(<<"m", "i", "c", "r", "o", "n">>), NoStr,
           NoStr, NoStr, NoStr),
    Pixels(Str(Chars_05), NoStr, NoStr, NoStr, NoStr, NoStr, NoStr, Str(Chars_30)),
    Pixels(Str(<<"0">>), Str(<<"2">>), NoStr, NoStr, Str(<<"m", "m">>), NoStr, NoStr, NoStr),
    Pixels(NoStr, NoStr, Str(<<"1", ".", "5">>), Str(<<"M", "i", "c", "r", "o", "n">>), NoStr,
           Str(<<"0", ".", "1">>), Str(<<"m", "s">>), NoStr),
    Pixels(NoStr, NoStr, NoStr, NoStr, NoStr, NoStr, NoStr, Str(Chars_30)),
    Pixels(NoStr, NoStr, NoStr, NoStr, NoStr, Str(<<"2">>), NoStr, NoStr),
    Pixels(Str(<<"n">>), Str(Chars_05), NoStr, Str(<<"u", "m">>), NoStr, NoStr, NoStr, NoStr) }

Captures(x, y, fr, ti) ==
  [physicalSizeX |-> x, physicalSizeY |-> y, frameRate |-> fr, timeIncrement |-> ti]

TextMatches ==
  { Captures(NoStr, NoStr, NoStr, NoStr),
    Captures(Str(<<"0", ".", "3">>), NoStr, Str(Chars_30), NoStr),
    Captures(NoStr, NoStr, Str(Chars_30), NoStr),
    Captures(NoStr, Str(Chars_05), NoStr, Str(<<".">>)),
    Captures(Str(<<"0">>), NoStr, NoStr, NoStr) }

\* a || b on attribute values
OrStr(a, b) == IF StrTruthy(a) THEN a ELSE b

\* lines 91-108
WithPixels(m, px) ==
  IF ~px.found THEN m
  ELSE
    LET physUnit == OrStr(px.PhysicalSizeXUnit, px.PhysicalSizeYUnit)
        num(a, old) == IF StrTruthy(a) THEN ParseFloat(a.s) ELSE old
        str(a, old) == IF StrTruthy(a) THEN a ELSE old
    IN [m EXCEPT !.physicalSizeX = num(px.PhysicalSizeX, @),
                 !.physicalSizeY = num(px.PhysicalSizeY, @),
                 !.physicalSizeZ = num(px.PhysicalSizeZ, @),
                 !.physicalSizeUnit = str(physUnit, @),
                 !.timeIncrement = num(px.TimeIncrement, @),
                 !.timeIncrementUnit = str(px.TimeIncrementUnit, @),
                 !.frameRate = num(px.FrameRate, @)]

\* lines 112-121
WithMatches(m, c) ==
  LET num(a, old) == IF a.k = "str" THEN ParseFloat(a.s) ELSE old
  IN [m EXCEPT !.physicalSizeX = num(c.physicalSizeX, @),
               !.physicalSizeY = num(c.physicalSizeY, @),
               !.frameRate = num(c.frameRate, @),
               !.timeIncrement = num(c.timeIncrement, @)]

\* description.trim().startsWith('<'), on character codes
IsSpace(c) == c \in {9, 10, 11, 12, 13, 32}

RECURSIVE TrimStart(_)
TrimStart(s) == IF s # <<>> /\ IsSpace(Head(s)) THEN TrimStart(Tail(s)) ELSE s

LooksLikeXml(s) == TrimStart(s) # <<>> /\ Head(TrimStart(s)) = 60

\* line 83
Geometry(w, h, x, y) ==
  [EmptyMeta EXCEPT !.width = w, !.height = h, !.xResolution = x, !.yResolution = y]

\* lines 83-127: the loop is over; build meta and return it
Finish ==
  /\ pc = "loop"
  /\ i >= numEntries
  /\ pc' = "parsed"
  /\ threw' = FALSE
  /\ LET m == Geometry(width, height, xRes, yRes)
     IN IF ~StrTruthy(description) THEN meta' = m
        ELSE IF LooksLikeXml(description.s)
          THEN \E px \in XmlDocs : meta' = WithPixels(m, px)
          ELSE \E c \in TextMatches : meta' = WithMatches(m, c)
  /\ UNCHANGED <<buf, littleEndian, firstIFDOffset, numEntries, i, width, height, xRes,
                 yRes, description, lastEntry, out, uiVars, themeVars>>

(***************************************************************************)
(* The formatter, tools.js lines 146-174.  The report is the sequence of   *)
(* its lines, a line the sequence of its pieces.                           *)
(***************************************************************************)
NoticeLine == <<"Unable to parse metadata from this file.">>

\* ${v ?? '?'}
Show(v) == IF Present(v) THEN NumStr(v) ELSE <<"?">>

\* line 156
UnitSuffix(u) == IF StrTruthy(u) THEN <<" ">> \o ReplaceMicro(u.s) ELSE <<" units">>

\* line 171: the condition of the notice
NoGeometry(m) ==
  ~Truthy(m.width) /\ ~Truthy(m.height) /\ ~Truthy(m.xResolution) /\ ~Truthy(m.yResolution)

FormatReport(name, size, m) ==
  LET unit == UnitSuffix(m.physicalSizeUnit)
      tunit == IF StrTruthy(m.timeIncrementUnit)
                 THEN <<" ">> \o m.timeIncrementUnit.s ELSE <<" s">>
      when(c, lines) == IF c THEN lines ELSE <<>>
  IN << <<"File: ", name>>, <<"Size: ">> \o NumStr(Num(size)) \o <<" bytes">> >>
     \o when(Truthy(m.width) \/ Truthy(m.height),
             << <<"Width: ">> \o Show(m.width) \o <<" px">>,
                <<"Height: ">> \o Show(m.height) \o <<" px">> >>)
     \o when(Truthy(m.xResolution) \/ Truthy(m.yResolution),
             << <<"X Resolution: ">> \o Show(m.xResolution),
                <<"Y Resolution: ">> \o Show(m.yResolution) >>)
     \o when(Truthy(m.physicalSizeX) \/ Truthy(m.physicalSizeY) \/ Truthy(m.physicalSizeZ),
             when(Truthy(m.physicalSizeX),
                  << <<"Pixel Size X: ">> \o NumStr(m.physicalSizeX) \o unit >>)
             \o when(Truthy(m.physicalSizeY),
                  << <<"Pixel Size Y: ">> \o NumStr(m.physicalSizeY) \o unit >>)
             \o when(Truthy(m.physicalSizeZ),
                  << <<"Pixel Size Z: ">> \o NumStr(m.physicalSizeZ) \o unit >>))
     \o when(Truthy(m.timeIncrement),
             << <<"Time Increment: ">> \o NumStr(m.timeIncrement) \o tunit >>)
     \o when(Truthy(m.frameRate),
             << <<"Frame Rate: ">> \o NumStr(m.frameRate) \o <<" Hz">> >>)
     \o when(NoGeometry(m), << <<>>, NoticeLine >>)

FileName == "image.tif"

\* lines 146-174: the report of this run is written to the page
Format ==
  /\ pc = "parsed"
  /\ pc' = "shown"
  /\ out' = FormatReport(FileName, Len(buf), meta)
  /\ UNCHANGED <<buf, littleEndian, firstIFDOffset, numEntries, i, width, height, xRes,
                 yRes, description, threw, lastEntry, meta, uiVars, themeVars>>

(***************************************************************************)
(* Spec: reader.onload on one file.                                        *)
(***************************************************************************)
NoFile == 0
NoText == [kind |-> "empty", file |-> NoFile]

UiIdle ==
  /\ selected = NoFile /\ disabled = TRUE /\ output = NoText
  /\ readers = <<>> /\ lastDone = 0 /\ cleared = FALSE

ThemeIdle ==
  /\ storageOK = TRUE /\ storage = "null" /\ dark = <<>> /\ icon = <<>>
  /\ events = <<>> /\ clicks = 0

Init ==
  /\ buf \in Files
  /\ pc = "start"
  /\ littleEndian = FALSE /\ firstIFDOffset = 0 /\ numEntries = 0 /\ i = 0
  /\ width = Undef /\ height = Undef /\ xRes = Undef /\ yRes = Undef
  /\ description = NoStr
  /\ threw = FALSE /\ lastEntry = "none"
  /\ meta = EmptyMeta /\ out = <<>>
  /\ UiIdle /\ ThemeIdle

Next == ParseHeader \/ EntryStep \/ Finish \/ Format

Spec == Init /\ [][Next]_vars

(***************************************************************************)
(* Claims about the parser and the formatter, checked under Spec.          *)
(***************************************************************************)
Parsed == pc \in {"parsed", "shown"}

\* the byte order of a file, from bytes 0-1
MarkIsII(b) == b[1] = 73 /\ b[2] = 73

\* the unsigned number held by the n bytes at offset off
RECURSIVE StoredValue(_, _, _, _)
StoredValue(b, off, n, le) ==
  IF n = 0 THEN 0
  ELSE IF le THEN b[off + 1] + 256 * StoredValue(b, off + 1, n - 1, le)
             ELSE b[off + n] + 256 * StoredValue(b, off, n - 1, le)

MagicOf(b) == StoredValue(b, 2, 2, MarkIsII(b))

\* the header cannot be parsed: too short, bad magic, a 64-bit offset that
\* does not fit the file, or an IFD offset past the end
HeaderUnparseable(b) ==
  \/ Len(b) < 8
  \/ MagicOf(b) \notin {42, 43}
  \/ MagicOf(b) = 43 /\ Len(b) < 12
  \/ MagicOf(b) = 42 /\ StoredValue(b, 4, 4, MarkIsII(b)) + 2 > Len(b)
  \/ MagicOf(b) = 43 /\ Len(b) >= 12 /\ GetUint64(b, 4, MarkIsII(b)) + 2 > Len(b)

\* C1: a file whose header cannot be parsed (shorter than 8 bytes, magic
\* neither 42 nor 43, IFD offset + 2 past the end, also 8 to 11 bytes with
\* magic 43) makes parseTiffMetadata return the empty metadata without
\* raising an exception to its caller.
C1_UnparseableHeaderReturnsEmpty ==
  (Parsed /\ HeaderUnparseable(buf)) => (~threw /\ meta = EmptyMeta)

\* the entry at index k can be decoded: its 12 bytes and the bytes its
\* tag's handler reads are inside the file
Place(k) == EntryPlace(buf, MarkIsII(buf), EntryOffset(k))
Usable(k) == ~Place(k).skip /\ InBounds(buf, Place(k).at, BytesRead(Place(k)))

\* the entries before index n that carry the tag and can be decoded
Carrying(tag, n) == {k \in 0..(n - 1) : Usable(k) /\ Place(k).tag = tag}

Last(S) == CHOOSE k \in S : \A j \in S : j <= k

DimOf(k) == Num(StoredValue(buf, Place(k).at, IF Place(k).type = 3 THEN 2 ELSE 4,
                            MarkIsII(buf)))

ResOf(k) ==
  LET num == StoredValue(buf, Place(k).at, 4, MarkIsII(buf))
      den == StoredValue(buf, Place(k).at + 4, 4, MarkIsII(buf))
  IN IF den = 0 THEN Undef ELSE JsDiv(num, den)

TextOf(k) == Str(ReadAscii(buf, Place(k).at, 0, Place(k).size))

\* the value the last decodable entry before n with the tag gives
LastWins(tag, n, Of(_), none) ==
  IF Carrying(tag, n) = {} THEN none ELSE Of(Last(Carrying(tag, n)))

\* C2: with a valid header, no read made while decoding an entry leaves
\* the buffer: an entry whose 12 bytes or whose value (both halves of a
\* rational too, also when the value is taken inline) would pass the end is
\* skipped alone, and the fields decoded from the other entries reach the
\* formatter.
C2_EntryReadsStayInBuffer ==
  (Parsed /\ ~HeaderUnparseable(buf)) =>
     /\ ~threw
     /\ meta.width = width /\ meta.height = height
     /\ meta.xResolution = xRes /\ meta.yResolution = yRes

\* C3: a classic TIFF (magic 42) of either byte order whose IFD holds one
\* in-bounds entry with tag 0x0100 (0x0101) yields as width (height) the
\* unsigned value at the entry's value location, 16 bits wide for type 3 and
\* 32 bits otherwise, in the byte order of bytes 0-1; type 3 with value 100
\* yields width 100.
C3_Minimal100 ==
  {BuildTiff(mark, 42, FALSE, 8, <<Entry(TagImageWidth, 3, 1, "short", 100)>>, 1, a) :
     mark \in Marks, a \in DataAreas}

C3_DimensionIsStoredValue ==
  (Parsed /\ ~HeaderUnparseable(buf) /\ MagicOf(buf) = 42 /\ numEntries = 1 /\ ~Place(0).skip) =>
     /\ Place(0).tag = TagImageWidth => meta.width = DimOf(0)
     /\ Place(0).tag = TagImageLength => meta.height = DimOf(0)
     /\ buf \in C3_Minimal100 => meta.width = Num(100)

C3_Witness ==
  /\ Parsed /\ buf \in C3_Minimal100 /\ ~MarkIsII(buf) /\ numEntries = 1
  /\ meta.width = Num(100)

\* C4: an in-bounds entry with tag 0x011A or 0x011B whose value is a pair
\* of 32-bit unsigned integers leaves the resolution absent when the
\* denominator is 0 and equal to numerator / denominator otherwise; the
\* field is never NaN or Infinity.
C4_IsQuotient(v, k) ==
  LET num == StoredValue(buf, Place(k).at, 4, MarkIsII(buf))
      den == StoredValue(buf, Place(k).at + 4, 4, MarkIsII(buf))
  IN IF den = 0 THEN v = Undef
     ELSE /\ v.k = "num" /\ v.d > 0 /\ den % v.d = 0
          /\ v.n * (den \div v.d) = num

C4_ResolutionIsQuotientOrAbsent ==
  /\ xRes.k \in {"undef", "num"} /\ yRes.k \in {"undef", "num"}
  /\ meta.xResolution.k \in {"undef", "num"} /\ meta.yResolution.k \in {"undef", "num"}
  /\ (pc = "loop" /\ lastEntry = "decoded" /\ i >= 1) =>
       /\ Place(i - 1).tag = TagXResolution => C4_IsQuotient(xRes, i - 1)
       /\ Place(i - 1).tag = TagYResolution => C4_IsQuotient(yRes, i - 1)

C4_Witness ==
  /\ pc = "loop" /\ lastEntry = "decoded" /\ i = 2
  /\ Place(0).tag = TagXResolution /\ Place(1).tag = TagXResolution
  /\ Usable(0) /\ ResOf(0) = Num(72)
  /\ StoredValue(buf, Place(1).at, 4, MarkIsII(buf)) = 1
  /\ StoredValue(buf, Place(1).at + 4, 4, MarkIsII(buf)) = 0
  /\ xRes = Undef

\* C5: the report ends with the notice exactly when none of width, height,
\* xResolution and yResolution was recovered from the file, a recovered 0
\* counting as recovered; pixel size, time increment and frame rate neither
\* suppress nor trigger it.
HasNotice(report) == report # <<>> /\ report[Len(report)] = NoticeLine

C5_NoticeIffNothingRecovered ==
  pc = "shown" =>
    (HasNotice(out) <=> (/\ ~Present(meta.width) /\ ~Present(meta.height)
                         /\ ~Present(meta.xResolution) /\ ~Present(meta.yResolution)))

\* C6: with a pixel size present the unit suffix is the unit with micro or
\* Micro replaced by the mu sign, or the word units without a unit; for
\* physicalSizeX 0.5 and unit 'micron' the line is 'Pixel Size X: 0.5 um'
\* (u: the mu sign).
C6_MicronLine == <<"Pixel Size X: ", "0", ".", "5", " ", Mu, "m">>

C6_MicronRendersAsMuM ==
  (/\ pc = "shown"
   /\ meta.physicalSizeX = JsDiv(1, 2)
   /\ meta.physicalSizeUnit = Str(<<"m", "i", "c", "r", "o", "n">>))
  => \E l \in 1..Len(out) : out[l] = C6_MicronLine

\* C8: entries are handled in their physical order and the last one wins:
\* after parsing, width, height, xResolution, yResolution and the
\* description hold what the last non-skipped entry with that tag gives (a
\* later rational with denominator 0 leaves the field absent, a later
\* skipped entry changes nothing).
C8_LastEntryWins ==
  /\ pc = "loop" =>
       /\ width = LastWins(TagImageWidth, i, DimOf, Undef)
       /\ height = LastWins(TagImageLength, i, DimOf, Undef)
       /\ xRes = LastWins(TagXResolution, i, ResOf, Undef)
       /\ yRes = LastWins(TagYResolution, i, ResOf, Undef)
       /\ description = LastWins(TagImageDescription, i, TextOf, NoStr)
  /\ (Parsed /\ ~HeaderUnparseable(buf)) =>
       /\ meta.width = LastWins(TagImageWidth, numEntries, DimOf, Undef)
       /\ meta.height = LastWins(TagImageLength, numEntries, DimOf, Undef)
       /\ meta.xResolution = LastWins(TagXResolution, numEntries, ResOf, Undef)
       /\ meta.yResolution = LastWins(TagYResolution, numEntries, ResOf, Undef)

\* the same, for the runs in which no read left the buffer
LastEntryWinsUnlessThrown == threw \/ C8_LastEntryWins

(***************************************************************************)
(* SpecUI: the tools page, tools.js lines 136-190.  A file stands for its  *)
(* name, size and bytes; the text a run writes is the report of its file   *)
(* (onload) or the failure message naming it (onerror).                    *)
(***************************************************************************)
NumFiles == 2       \* files the user can pick
MaxRuns == 3        \* clicks on the extract button

UiFiles == 1..NumFiles

ParseIdle ==
  /\ buf = <<>> /\ pc = "idle"
  /\ littleEndian = FALSE /\ firstIFDOffset = 0 /\ numEntries = 0 /\ i = 0
  /\ width = Undef /\ height = Undef /\ xRes = Undef /\ yRes = Undef
  /\ description = NoStr /\ threw = FALSE /\ lastEntry = "none"
  /\ meta = EmptyMeta /\ out = <<>>

InitUI ==
  /\ selected = NoFile
  /\ disabled \in BOOLEAN
  /\ output = NoText
  /\ readers = <<>>
  /\ lastDone = 0
  /\ cleared = FALSE
  /\ ParseIdle /\ ThemeIdle

\* lines 182-185: the selection changed
Change(f) ==
  /\ f # selected
  /\ selected' = f
  /\ disabled' = (f = NoFile)
  /\ output' = NoText
  /\ cleared' = TRUE
  /\ UNCHANGED <<readers, lastDone, parseVars, themeVars>>

\* lines 186-190 and 136-137, 179: a click starts a read of the selected file
Click ==
  /\ ~disabled
  /\ Len(readers) < MaxRuns
  /\ IF selected = NoFile
       THEN UNCHANGED readers
       ELSE readers' = Append(readers, [file |-> selected, state |-> "loading"])
  /\ UNCHANGED <<selected, disabled, output, lastDone, cleared, parseVars, themeVars>>

\* a variant in which the handlers look at the input's current file
RunFileFromInput(r) == selected

\* the `file` the handlers of run r close over (line 136)
RunFile(r) == readers[r].file

\* lines 138-175: the read of run r succeeded
OnLoad(r) ==
  /\ readers[r].state = "loading"
  /\ output' = [kind |-> "report", file |-> RunFile(r)]
  /\ readers' = [readers EXCEPT ![r].state = "loaded"]
  /\ lastDone' = r
  /\ cleared' = FALSE
  /\ UNCHANGED <<selected, disabled, parseVars, themeVars>>

\* lines 176-178: the read of run r failed
OnError(r) ==
  /\ readers[r].state = "loading"
  /\ output' = [kind |-> "failed", file |-> RunFile(r)]
  /\ readers' = [readers EXCEPT ![r].state = "failed"]
  /\ lastDone' = r
  /\ cleared' = FALSE
  /\ UNCHANGED <<selected, disabled, parseVars, themeVars>>

NextUI ==
  \/ \E f \in UiFiles \cup {NoFile} : Change(f)
  \/ Click
  \/ \E r \in 1..Len(readers) : OnLoad(r)
  \/ \E r \in 1..Len(readers) : OnError(r)

SpecUI == InitUI /\ [][NextUI]_vars

AllReadsOver == \A r \in 1..Len(readers) : readers[r].state # "loading"

\* C7: under every interleaving of clicks and read completions each run
\* writes the text of its own file, and once every started read is over the
\* page shows the text of the run that completed last.
C7_LastCompletedRunIsShown ==
  (AllReadsOver /\ lastDone # 0 /\ ~cleared) =>
     /\ output.file = readers[lastDone].file
     /\ output.kind = (IF readers[lastDone].state = "loaded" THEN "report" ELSE "failed")

C7_Witness ==
  /\ AllReadsOver /\ Len(readers) = 2 /\ lastDone = 1 /\ ~cleared
  /\ readers[1].file # readers[2].file
  /\ selected = readers[2].file
  /\ output = [kind |-> "report", file |-> readers[1].file]

\* C10: a non-empty output belongs to the file now selected; after a
\* change of the selection cleared it, it stays empty until the next click,
\* even when a read started earlier completes afterwards.
C10_OutputBelongsToSelection ==
  output # NoText => output.file = selected

(***************************************************************************)
(* SpecTheme: js/main.js in several tabs of one browser.  A setItem that   *)
(* changes the value queues a storage event for every other tab.           *)
(***************************************************************************)
NumTabs == 2        \* open tabs
MaxClicks == 4      \* toggle clicks

Tabs == 1..NumTabs

\* lines 22-26: the icon for a theme
IconFor(isDark) == IF isDark THEN "sun" ELSE "moon"

\* lines 8-12: applyTheme
AppliedDark(theme) == theme = "dark"

\* lines 15-18 and 35: a tab loads: it applies the saved theme, if any, to
\* the class the page came with, and sets the icon
InitTheme ==
  /\ storageOK \in BOOLEAN
  /\ storage \in (IF storageOK THEN {"null", "dark", "light"} ELSE {"null"})
  /\ \E pageDark \in BOOLEAN :
       dark = [t \in Tabs |-> IF storage = "null" THEN pageDark ELSE AppliedDark(storage)]
  /\ icon = [t \in Tabs |-> IconFor(dark[t])]
  /\ events = [t \in Tabs |-> <<>>]
  /\ clicks = 0
  /\ ParseIdle /\ UiIdle

\* lines 28-34: the toggle is clicked in tab t
Toggle(t) ==
  /\ clicks < MaxClicks
  /\ clicks' = clicks + 1
  /\ LET next == IF dark[t] THEN "light" ELSE "dark"
     IN /\ storage' = IF storageOK THEN next ELSE storage
        /\ events' = [u \in Tabs |->
                        IF u # t /\ storageOK /\ storage # next
                          THEN Append(events[u], [key |-> "theme", newValue |-> next])
                          ELSE events[u]]
        /\ dark' = [dark EXCEPT ![t] = AppliedDark(next)]
        /\ icon' = [icon EXCEPT ![t] = IconFor(AppliedDark(next))]
  /\ UNCHANGED <<storageOK, parseVars, uiVars>>

\* lines 39-44: tab t receives its oldest storage event
OnStorage(t) ==
  /\ events[t] # <<>>
  /\ events' = [events EXCEPT ![t] = Tail(@)]
  /\ LET e == Head(events[t])
     IN IF e.key = "theme" /\ e.newValue \in {"dark", "light"}
          THEN /\ dark' = [dark EXCEPT ![t] = AppliedDark(e.newValue)]
               /\ icon' = [icon EXCEPT ![t] = IconFor(AppliedDark(e.newValue))]
          ELSE UNCHANGED <<dark, icon>>
  /\ UNCHANGED <<storageOK, storage, clicks, parseVars, uiVars>>

NextTheme ==
  \/ \E t \in Tabs : Toggle(t)
  \/ \E t \in Tabs : OnStorage(t)

SpecTheme == InitTheme /\ [][NextTheme]_vars

\* C9: once every pending storage event is delivered, all tabs show the
\* same theme, that theme is the one stored under 'theme', and each tab's
\* icon matches its own class (sun when dark, moon when light).
C9_TabsAgreeWhenQuiet ==
  (storageOK /\ clicks > 0 /\ \A t \in Tabs : events[t] = <<>>) =>
     \A t \in Tabs :
       /\ dark[t] = (storage = "dark")
       /\ \A u \in Tabs : dark[u] = dark[t]
       /\ icon[t] = IconFor(dark[t])

====
